---- MODULE Spec2Model ----
(***************************************************************************)
(* Model of app.py: the Streamlit script that writes an uploaded PDF to a  *)
(* temporary file, extracts its lines, gates them with three regular       *)
(* expressions, classifies the candidates with the loaded model, groups    *)
(* them per category and builds the JSON report.                           *)
(*                                                                         *)
(* A line is a sequence of one-character strings.  An optional value is a  *)
(* sequence of length 0 (Python None / not yet assigned) or 1.             *)
(***************************************************************************)
EXTENDS Naturals, Sequences, FiniteSets

VARIABLES
    pc,             \* position of the current script run
    artifacts,      \* st.cache_resource entry of load_artifacts: None or Some(record)
    uploaded_file,  \* value of st.file_uploader in this run: None or Some(record)
    tmp_files,      \* temporary files present on disk
    pdf_path,       \* name of this run's temporary file, 0 when unset
    lines,          \* result of extract_text_from_pdf: None or Some(sequence of lines)
    X,              \* argument of vectorizer.transform: None when it was not called
    predictions,    \* model.predict(X)
    pii_output,     \* result of detect_pii: None or Some(mapping)
    json_output     \* result of build_json: None or Some(report)

vars == <<pc, artifacts, uploaded_file, tmp_files, pdf_path,
          lines, X, predictions, pii_output, json_output>>

----------------------------------------------------------------------------
\* Bounds of the model.

\* Longest document, in raw lines.
MaxLines == 2

\* Most temporary files on disk at once.
MaxTmpFiles == 2

----------------------------------------------------------------------------
\* Optional values.

None == <<>>

Some(v) == <<v>>

Get(o) == o[1]

----------------------------------------------------------------------------
\* Characters and the classes the patterns use.

Digit == {"0", "1", "2", "3", "4", "5", "6", "7", "8", "9"}

Upper == {"A", "B", "C", "D", "E", "F", "G", "H", "I", "J", "K", "L", "M",
          "N", "O", "P", "Q", "R", "S", "T", "U", "V", "W", "X", "Y", "Z"}

Lower == {"a", "b", "c", "d", "e", "f", "g", "h", "i", "j", "k", "l", "m",
          "n", "o", "p", "q", "r", "s", "t", "u", "v", "w", "x", "y", "z"}

\* \s
Space == {" ", "\t"}

\* \w
Word == Digit \cup Upper \cup Lower \cup {"_"}

\* Is position i of s a word character (positions outside s are not).
WordAt(s, i) == i \in 1..Len(s) /\ s[i] \in Word

\* \b between s[i] and s[i+1], for i in 0..Len(s).
Boundary(s, i) == WordAt(s, i) # WordAt(s, i + 1)

\* The n characters of s from position from on are all of class cls.
Run(s, from, n, cls) ==
    /\ from + n - 1 <= Len(s)
    /\ \A k \in from..(from + n - 1) : s[k] \in cls

\* \b\d{4}\s?\d{4}\s?\d{4}\b matched with its first character at p.
AadhaarAt(s, p) ==
    /\ Boundary(s, p - 1)
    /\ Run(s, p, 4, Digit)
    /\ \E a \in 0..1 :
           /\ Run(s, p + 4, a, Space)
           /\ Run(s, p + 4 + a, 4, Digit)
           /\ \E b \in 0..1 :
                  /\ Run(s, p + 8 + a, b, Space)
                  /\ Run(s, p + 8 + a + b, 4, Digit)
                  /\ Boundary(s, p + 11 + a + b)

\* \b[A-Z]{5}[0-9]{4}[A-Z]\b matched with its first character at p.
PanAt(s, p) ==
    /\ Boundary(s, p - 1)
    /\ Run(s, p, 5, Upper)
    /\ Run(s, p + 5, 4, Digit)
    /\ Run(s, p + 9, 1, Upper)
    /\ Boundary(s, p + 9)

\* \b[A-Z][0-9]{7}\b matched with its first character at p.
PassportAt(s, p) ==
    /\ Boundary(s, p - 1)
    /\ Run(s, p, 1, Upper)
    /\ Run(s, p + 1, 7, Digit)
    /\ Boundary(s, p + 7)

\* AADHAAR_REGEX.search(line) finds a match.
AADHAAR_REGEX(line) == \E p \in 1..Len(line) : AadhaarAt(line, p)

\* PAN_REGEX.search(line) finds a match.
PAN_REGEX(line) == \E p \in 1..Len(line) : PanAt(line, p)

\* PASSPORT_REGEX.search(line) finds a match.
PASSPORT_REGEX(line) == \E p \in 1..Len(line) : PassportAt(line, p)

\* A gate that lets every line through.
is_potential_pii_all(line) == TRUE

is_potential_pii(line) ==
    \/ AADHAAR_REGEX(line)
    \/ PAN_REGEX(line)
    \/ PASSPORT_REGEX(line)

----------------------------------------------------------------------------
\* The documents of the model: raw lines as page.extract_text().split("\n")
\* yields them, before stripping.

RawAadhaar == <<"1", "2", "3", "4", " ", "5", "6", "7", "8", " ", "9", "0", "1", "2">>

RawPanPassport ==
    <<"A", "B", "C", "D", "E", "1", "2", "3", "4", "F", " ",
      "A", "1", "2", "3", "4", "5", "6", "7">>

RawPassportPadded == <<" ", "A", "1", "2", "3", "4", "5", "6", "7", " ">>

\* Prose with a 13-digit number: no pattern matches it.
RawPlain ==
    <<"n", "o", " ", "1", "2", "3", "4", "5", "6", "7", "8", "9", "0", "1", "2", "3">>

\* A PAN in lower case: no pattern matches it.
RawLowerPan == <<"a", "b", "c", "d", "e", "1", "2", "3", "4", "f">>

RawBlank == <<" ">>

RawLines ==
    {RawAadhaar, RawPanPassport, RawPassportPadded, RawPlain, RawLowerPan, RawBlank}

RECURSIVE SeqsUpTo(_, _)
\* The sequences over S of length at most n.
SeqsUpTo(S, n) ==
    IF n = 0 THEN {<<>>}
    ELSE LET shorter == SeqsUpTo(S, n - 1)
         IN  shorter \cup {Append(q, e) : q \in shorter, e \in S}

\* A PDF is the sequence of its raw lines, or a file pdfplumber cannot open.
Corrupt == <<"corrupt">>

Readable(raw) == <<"pdf", raw>>

IsReadable(content) == content[1] = "pdf"

Documents == {Corrupt} \cup {Readable(raw) : raw \in SeqsUpTo(RawLines, MaxLines)}

DocumentName == "doc.pdf"

----------------------------------------------------------------------------
\* extract_text_from_pdf

RECURSIVE lstrip(_)
lstrip(s) ==
    IF s # <<>> /\ Head(s) \in Space THEN lstrip(Tail(s)) ELSE s

RECURSIVE rstrip(_)
rstrip(s) ==
    IF s # <<>> /\ s[Len(s)] \in Space THEN rstrip(SubSeq(s, 1, Len(s) - 1)) ELSE s

\* line.strip()
strip(s) == rstrip(lstrip(s))

RECURSIVE extract_text_from_pdf(_)
\* [line.strip() for line in lines if line.strip()]
extract_text_from_pdf(raw) ==
    IF raw = <<>> THEN <<>>
    ELSE LET rest == extract_text_from_pdf(Tail(raw))
         IN  IF strip(Head(raw)) # <<>> THEN <<strip(Head(raw))>> \o rest ELSE rest

----------------------------------------------------------------------------
\* Categories, labels and the loaded artifacts.

\* The keys of pii_output, in the order build_json reads them.
Categories == <<"AADHAAR", "PAN", "PASSPORT">>

CategorySet == {Categories[i] : i \in DOMAIN Categories}

\* What model.predict can return for a row: a category or some other class.
Labels == CategorySet \cup {"OTHER"}

\* The contents label_mapping.pkl may have: a display label for each category.
\* One label per category, the same in another order, one label shared by two
\* categories, one label for all three.
LabelMappings ==
    {[AADHAAR |-> "Aadhaar Number", PAN |-> "PAN Number", PASSPORT |-> "Passport Number"],
     [AADHAAR |-> "Passport Number", PAN |-> "Aadhaar Number", PASSPORT |-> "PAN Number"],
     [AADHAAR |-> "Aadhaar Number", PAN |-> "Tax Number", PASSPORT |-> "Aadhaar Number"],
     [AADHAAR |-> "Government ID", PAN |-> "Government ID", PASSPORT |-> "Government ID"]}

Artifacts(lm) ==
    [model |-> "pii_svm_model.pkl", vectorizer |-> "tfidf_vectorizer.pkl",
     label_mapping |-> lm]

\* The global label_mapping of a run past line 19.
label_mapping == Get(artifacts).label_mapping

----------------------------------------------------------------------------
\* detect_pii

RECURSIVE Filter(_)
\* [line for line in lines if is_potential_pii(line)]
Filter(ls) ==
    IF ls = <<>> THEN <<>>
    ELSE IF is_potential_pii(Head(ls)) THEN <<Head(ls)>> \o Filter(Tail(ls))
         ELSE Filter(Tail(ls))

EmptyOutput == [AADHAAR |-> <<>>, PAN |-> <<>>, PASSPORT |-> <<>>]

\* A detect_pii that calls the classifier whatever the candidates are.
NoCandidates_never(candidate_lines) == FALSE

\* if not candidate_lines
NoCandidates(candidate_lines) == candidate_lines = <<>>

\* A loop body that puts a line of an unknown label under PASSPORT.
AppendLabel_forced(out, line, label) ==
    IF label \in DOMAIN out
    THEN [out EXCEPT ![label] = Append(@, line)]
    ELSE [out EXCEPT !["PASSPORT"] = Append(@, line)]

\* A loop body that inserts at the front.
AppendLabel_front(out, line, label) ==
    IF label \in DOMAIN out
    THEN [out EXCEPT ![label] = <<line>> \o @]
    ELSE out

\* A loop body that appends the line twice.
AppendLabel_twice(out, line, label) ==
    IF label \in DOMAIN out
    THEN [out EXCEPT ![label] = Append(Append(@, line), line)]
    ELSE out

\* A loop body that also files a line under the first category.
AppendLabel_also(out, line, label) ==
    IF label \in DOMAIN out
    THEN [[out EXCEPT ![label] = Append(@, line)]
             EXCEPT !["AADHAAR"] = Append(@, line)]
    ELSE out

\* if label in pii_output: pii_output[label].append(line)
AppendLabel(out, line, label) ==
    IF label \in DOMAIN out
    THEN [out EXCEPT ![label] = Append(@, line)]
    ELSE out

RECURSIVE GroupLoop(_, _, _)
\* for line, label in zip(candidate_lines, predictions)
GroupLoop(cands, preds, out) ==
    IF cands = <<>> \/ preds = <<>> THEN out
    ELSE GroupLoop(Tail(cands), Tail(preds), AppendLabel(out, Head(cands), Head(preds)))

----------------------------------------------------------------------------
\* build_json

\* d[k] = v on a Python dict kept as a sequence of <<key, value>> in insertion
\* order: an existing key keeps its place and takes the new value.
DictSet(d, k, v) ==
    IF \E i \in DOMAIN d : d[i][1] = k
    THEN [i \in DOMAIN d |-> IF d[i][1] = k THEN <<k, v>> ELSE d[i]]
    ELSE Append(d, <<k, v>>)

\* A report whose total leaves the passports out.
build_json_short(document_name, pii_data) ==
    [document_name |-> document_name,
     summary |->
        [aadhaar_count |-> Len(pii_data["AADHAAR"]),
         pan_count |-> Len(pii_data["PAN"]),
         passport_count |-> Len(pii_data["PASSPORT"]),
         total_pii_items |-> Len(pii_data["AADHAAR"]) + Len(pii_data["PAN"])],
     detected_pii |->
        DictSet(DictSet(DictSet(<<>>,
            label_mapping["AADHAAR"], pii_data["AADHAAR"]),
            label_mapping["PAN"], pii_data["PAN"]),
            label_mapping["PASSPORT"], pii_data["PASSPORT"])]

build_json(document_name, pii_data) ==
    [document_name |-> document_name,
     summary |->
        [aadhaar_count |-> Len(pii_data["AADHAAR"]),
         pan_count |-> Len(pii_data["PAN"]),
         passport_count |-> Len(pii_data["PASSPORT"]),
         total_pii_items |->
            Len(pii_data["AADHAAR"]) + Len(pii_data["PAN"]) + Len(pii_data["PASSPORT"])],
     detected_pii |->
        DictSet(DictSet(DictSet(<<>>,
            label_mapping["AADHAAR"], pii_data["AADHAAR"]),
            label_mapping["PAN"], pii_data["PAN"]),
            label_mapping["PASSPORT"], pii_data["PASSPORT"])]

----------------------------------------------------------------------------
\* The script, one run after another.

Init ==
    /\ pc = "idle"
    /\ artifacts = None
    /\ uploaded_file = None
    /\ tmp_files = {}
    /\ pdf_path = 0
    /\ lines = None
    /\ X = None
    /\ predictions = <<>>
    /\ pii_output = None
    /\ json_output = None

\* The names of a run are gone when the run is over.
Discard ==
    /\ uploaded_file' = None
    /\ pdf_path' = 0
    /\ lines' = None
    /\ X' = None
    /\ predictions' = <<>>
    /\ pii_output' = None
    /\ json_output' = None

\* No script run is under way: the last one ended or was stopped by an exception.
BetweenRuns == pc \in {"idle", "aborted", "load_error"}

\* A run in which load_artifacts raises goes on to the uploader all the same.
AfterLoadError_continue == "upload"

\* Where a run is after load_artifacts has raised at line 19.
AfterLoadError == "load_error"

\* Line 19, the resource is cached: load_artifacts returns it.
LoadCached ==
    /\ BetweenRuns
    /\ artifacts # None
    /\ pc' = "upload"
    /\ UNCHANGED <<artifacts, uploaded_file, tmp_files, pdf_path,
                   lines, X, predictions, pii_output, json_output>>

\* Line 19, nothing cached: the three joblib.load calls succeed.
LoadOk ==
    /\ BetweenRuns
    /\ artifacts = None
    /\ \E lm \in LabelMappings : artifacts' = Some(Artifacts(lm))
    /\ pc' = "upload"
    /\ UNCHANGED <<uploaded_file, tmp_files, pdf_path,
                   lines, X, predictions, pii_output, json_output>>

\* Line 19, nothing cached: one of the joblib.load calls raises.
LoadError ==
    /\ BetweenRuns
    /\ artifacts = None
    /\ pc' = AfterLoadError
    /\ UNCHANGED <<artifacts, uploaded_file, tmp_files, pdf_path,
                   lines, X, predictions, pii_output, json_output>>

\* Lines 108-110: no file in the uploader, the run ends.
NoUpload ==
    /\ pc = "upload"
    /\ pc' = "idle"
    /\ UNCHANGED <<artifacts, uploaded_file, tmp_files, pdf_path,
                   lines, X, predictions, pii_output, json_output>>

\* tempfile.NamedTemporaryFile picks a name not in use.
NewTmp == CHOOSE n \in 1..MaxTmpFiles : n \notin tmp_files

\* Lines 108-115: a file is in the uploader and is written to a temporary file.
Upload ==
    /\ pc = "upload"
    /\ Cardinality(tmp_files) < MaxTmpFiles
    /\ \E content \in Documents :
           uploaded_file' = Some([name |-> DocumentName, content |-> content])
    /\ pdf_path' = NewTmp
    /\ tmp_files' = tmp_files \cup {NewTmp}
    /\ pc' = "button"
    /\ UNCHANGED <<artifacts, lines, X, predictions, pii_output,
                   json_output>>

\* Lines 117 and 133: the button is not pressed, the file is removed.
NotPressed ==
    /\ pc = "button"
    /\ tmp_files' = tmp_files \ {pdf_path}
    /\ pc' = "idle"
    /\ Discard
    /\ UNCHANGED artifacts

\* Line 117: the button is pressed.
Pressed ==
    /\ pc = "button"
    /\ pc' = "extract"
    /\ UNCHANGED <<artifacts, uploaded_file, tmp_files, pdf_path,
                   lines, X, predictions, pii_output, json_output>>

\* Line 119: extract_text_from_pdf returns the document's lines.
Extract ==
    /\ pc = "extract"
    /\ IsReadable(Get(uploaded_file).content)
    /\ lines' = Some(extract_text_from_pdf(Get(uploaded_file).content[2]))
    /\ pc' = "detect"
    /\ UNCHANGED <<artifacts, uploaded_file, tmp_files, pdf_path,
                   X, predictions, pii_output, json_output>>

\* Line 119: pdfplumber.open raises, the run stops there.
ExtractError ==
    /\ pc = "extract"
    /\ ~IsReadable(Get(uploaded_file).content)
    /\ pc' = "aborted"
    /\ Discard
    /\ UNCHANGED <<artifacts, tmp_files>>

\* Line 120: detect_pii(lines).
Detect ==
    /\ pc = "detect"
    /\ LET candidate_lines == Filter(Get(lines))
       IN  IF NoCandidates(candidate_lines)
           THEN /\ X' = None
                /\ predictions' = <<>>
                /\ pii_output' = Some(EmptyOutput)
           ELSE \E preds \in [1..Len(candidate_lines) -> Labels] :
                    /\ X' = Some(candidate_lines)
                    /\ predictions' = preds
                    /\ pii_output' = Some(GroupLoop(candidate_lines, preds, EmptyOutput))
    /\ pc' = "build"
    /\ UNCHANGED <<artifacts, uploaded_file, tmp_files, pdf_path,
                   lines, json_output>>

\* Line 121: build_json(uploaded_file.name, pii_data).
Build ==
    /\ pc = "build"
    /\ json_output' = Some(build_json(Get(uploaded_file).name, Get(pii_output)))
    /\ pc' = "show"
    /\ UNCHANGED <<artifacts, uploaded_file, tmp_files, pdf_path,
                   lines, X, predictions, pii_output>>

\* Lines 123-133: the report is shown and the temporary file removed.
Remove ==
    /\ pc = "show"
    /\ tmp_files' = tmp_files \ {pdf_path}
    /\ pc' = "idle"
    /\ Discard
    /\ UNCHANGED artifacts

Next ==
    \/ LoadCached
    \/ LoadOk
    \/ LoadError
    \/ NoUpload
    \/ Upload
    \/ NotPressed
    \/ Pressed
    \/ Extract
    \/ ExtractError
    \/ Detect
    \/ Build
    \/ Remove

Spec == Init /\ [][Next]_vars

----------------------------------------------------------------------------
\* Vocabulary of the properties.

\* How many times line t occurs in the sequence s.
Count(t, s) == Cardinality({i \in DOMAIN s : s[i] = t})

Range(s) == {s[i] : i \in DOMAIN s}

RECURSIVE IsSubseq(_, _)
\* a can be had from b by deleting elements.
IsSubseq(a, b) ==
    IF a = <<>> THEN TRUE
    ELSE IF b = <<>> THEN FALSE
    ELSE IF Head(a) = Head(b) THEN IsSubseq(Tail(a), Tail(b))
    ELSE IsSubseq(a, Tail(b))

\* The line matches none of the three patterns.
MatchesNone(l) == ~AADHAAR_REGEX(l) /\ ~PAN_REGEX(l) /\ ~PASSPORT_REGEX(l)

\* The line matches at least two of the three patterns.
MatchesSeveral(l) ==
    \/ AADHAAR_REGEX(l) /\ PAN_REGEX(l)
    \/ AADHAAR_REGEX(l) /\ PASSPORT_REGEX(l)
    \/ PAN_REGEX(l) /\ PASSPORT_REGEX(l)

\* detect_pii has returned in this run.
Detected == pii_output # None

\* build_json has returned in this run.
Reported == json_output # None

\* The rows handed to the classifier in this run (none when it was not called).
Rows == IF X = None THEN <<>> ELSE Get(X)

\* The rows for which the classifier returned label c.
RowsLabelled(c) == {i \in DOMAIN Rows : predictions[i] = c}

\* The rows holding line l for which the classifier returned label c.
RowsOf(l, c) == {i \in RowsLabelled(c) : Rows[i] = l}

Summary == Get(json_output).summary

AllCountsZero ==
    /\ Summary.aadhaar_count = 0
    /\ Summary.pan_count = 0
    /\ Summary.passport_count = 0
    /\ Summary.total_pii_items = 0

----------------------------------------------------------------------------
\* C1: every category sequence detect_pii returns is a subsequence of its
\* input: each of its lines is a line of the input, verbatim, and the lines
\* of one category keep the order they have in the input.
C1_Subsequence ==
    Detected =>
        \A c \in CategorySet : IsSubseq(Get(pii_output)[c], Get(lines))

\* Two different lines of the input landed in one category.
C1_Witness ==
    /\ Detected
    /\ \E c \in CategorySet :
           /\ Len(Get(pii_output)[c]) = 2
           /\ Get(pii_output)[c][1] # Get(pii_output)[c][2]

\* C2: a line of the input that matches none of the three patterns is not
\* among the rows given to the vectorizer and is in no category of the
\* output, whatever the classifier returned for the other lines.
C2_GateMonotone ==
    Detected =>
        \A i \in DOMAIN Get(lines) :
            MatchesNone(Get(lines)[i]) =>
                /\ Get(lines)[i] \notin Range(Rows)
                /\ \A c \in CategorySet : Get(lines)[i] \notin Range(Get(pii_output)[c])

\* The classifier ran on a document that also holds a line matching no pattern.
C2_Witness ==
    /\ Detected
    /\ X # None
    /\ \E i \in DOMAIN Get(lines) : MatchesNone(Get(lines)[i])

\* C3: when the input is empty or none of its lines passes the gate,
\* detect_pii returns three empty sequences without calling the classifier,
\* and the report built from them has all counts zero.
C3_NoCandidates ==
    (lines # None /\ \A i \in DOMAIN Get(lines) : MatchesNone(Get(lines)[i])) =>
        /\ Detected =>
               /\ \A c \in CategorySet : Get(pii_output)[c] = <<>>
               /\ X = None
               /\ predictions = <<>>
        /\ Reported => AllCountsZero

\* A report was built for a document that has lines, none passing the gate.
C3_Witness ==
    /\ Reported
    /\ Get(lines) # <<>>
    /\ \A i \in DOMAIN Get(lines) : MatchesNone(Get(lines)[i])

\* A report was built for a document without lines.
C3_WitnessEmpty == Reported /\ Get(lines) = <<>>

\* C4: a candidate for which the classifier returns a label that is no
\* category is dropped: each category's sequence holds exactly the candidates
\* labelled with it, detect_pii returns normally, and the report counts only
\* the candidates whose label is a category.
C4_UnknownDropped ==
    /\ Detected =>
           /\ pc \in {"build", "show"}
           /\ \A c \in CategorySet :
                  /\ Len(Get(pii_output)[c]) = Cardinality(RowsLabelled(c))
                  /\ \A l \in Range(Rows) :
                         Count(l, Get(pii_output)[c]) = Cardinality(RowsOf(l, c))
    /\ Reported =>
           /\ Summary.aadhaar_count = Cardinality(RowsLabelled("AADHAAR"))
           /\ Summary.pan_count = Cardinality(RowsLabelled("PAN"))
           /\ Summary.passport_count = Cardinality(RowsLabelled("PASSPORT"))
           /\ Summary.total_pii_items =
                  Cardinality({i \in DOMAIN Rows : predictions[i] \in CategorySet})

\* A report was built after the classifier returned a label that is no
\* category for one candidate and a category for another.
C4_Witness ==
    /\ Reported
    /\ \E i \in DOMAIN Rows : predictions[i] \notin CategorySet
    /\ \E i \in DOMAIN Rows : predictions[i] \in CategorySet

\* C5 as stated: every occurrence of a line matching several patterns is one
\* row of the classifier's input and is in exactly one category's sequence.
C5_ExactlyOneCategory ==
    Detected =>
        \A l \in Range(Get(lines)) :
            MatchesSeveral(l) =>
                /\ Count(l, Rows) = Count(l, Get(lines))
                /\ Count(l, Get(pii_output)["AADHAAR"]) + Count(l, Get(pii_output)["PAN"])
                       + Count(l, Get(pii_output)["PASSPORT"]) = Count(l, Get(lines))

\* C5 (amended): every occurrence of a line matching several patterns is one
\* row of the classifier's input and is in at most one category's sequence:
\* that of the label the classifier returned for it when the label is a
\* category, and none otherwise.
C5_AtMostOneCategory ==
    Detected =>
        \A l \in Range(Get(lines)) :
            MatchesSeveral(l) =>
                /\ Count(l, Rows) = Count(l, Get(lines))
                /\ \A c \in CategorySet :
                       Count(l, Get(pii_output)[c]) = Cardinality(RowsOf(l, c))

\* A line matching both the PAN and the PASSPORT pattern was labelled PAN.
C5_Witness ==
    /\ Detected
    /\ \E i \in DOMAIN Rows :
           /\ MatchesSeveral(Rows[i])
           /\ predictions[i] = "PAN"
           /\ Rows[i] \in Range(Get(pii_output)["PAN"])

\* C6: in every report total_pii_items is the sum of the three counts, each
\* the length of its category's sequence in the grouped mapping.
C6_TotalIsSum ==
    Reported =>
        /\ Summary.total_pii_items =
               Summary.aadhaar_count + Summary.pan_count + Summary.passport_count
        /\ Summary.aadhaar_count = Len(Get(pii_output)["AADHAAR"])
        /\ Summary.pan_count = Len(Get(pii_output)["PAN"])
        /\ Summary.passport_count = Len(Get(pii_output)["PASSPORT"])

\* A report with a passport and a line of another category.
C6_Witness ==
    /\ Reported
    /\ Summary.passport_count > 0
    /\ Summary.total_pii_items > Summary.passport_count

\* C7 as stated: no line occurs twice in a category's sequence.
C7_NoDuplicate ==
    Detected =>
        \A c \in CategorySet :
            \A l \in Range(Get(pii_output)[c]) : Count(l, Get(pii_output)[c]) = 1

\* C7 (amended): a line occurs in a category's sequence at most as often as
\* in the input, and no line is invented or reordered.
C7_NoMoreThanInput ==
    Detected =>
        \A c \in CategorySet :
            /\ \A l \in Range(Get(pii_output)[c]) :
                   /\ Count(l, Get(lines)) > 0
                   /\ Count(l, Get(pii_output)[c]) <= Count(l, Get(lines))
            /\ IsSubseq(Get(pii_output)[c], Get(lines))

\* The input holds one line twice and both occurrences are in one category.
C7_Witness ==
    /\ Detected
    /\ \E c \in CategorySet : \E l \in Range(Get(lines)) :
           /\ Count(l, Get(lines)) = 2
           /\ Count(l, Get(pii_output)[c]) = 2

\* C8: detected_pii has one entry per category, keyed by the category's
\* display label, in the order AADHAAR, PAN, PASSPORT, and the entry of a
\* category holds that category's sequence, as long as its count.
C8_EntryPerCategory ==
    Reported =>
        LET d == Get(json_output).detected_pii
        IN  /\ Len(d) = Len(Categories)
            /\ \A i \in DOMAIN Categories :
                   /\ d[i][1] = label_mapping[Categories[i]]
                   /\ d[i][2] = Get(pii_output)[Categories[i]]
            /\ Len(d[1][2]) = Summary.aadhaar_count
            /\ Len(d[2][2]) = Summary.pan_count
            /\ Len(d[3][2]) = Summary.passport_count

C10_TmpRemoved == BetweenRuns => tmp_files = {}

====
